---------------------------- MODULE Spec2Model ----------------------------
(***************************************************************************)
(* A model of ptt-crawler: the article parser (src/src/parser.rs) as pure  *)
(* operators over an abstract HTML document, and the range crawler         *)
(* (src/src/crawler.rs) as a state machine stepping at its await points.   *)
(*                                                                         *)
(* A Rust Option is a sequence of length 0 (None) or 1 (Some).  A Rust     *)
(* Result, extended with the panic an unwrap() raises, is a record         *)
(* [tag, val, why] with tag "Ok", "Err" or "Panic".                        *)
(***************************************************************************)
EXTENDS Integers, Sequences, FiniteSets, TLC

None == <<>>
Some(x) == <<x>>
IsSome(o) == Len(o) = 1
Unwrap(o) == o[1]

Ok(v) == [tag |-> "Ok", val |-> v, why |-> <<>>]
Err(e) == [tag |-> "Err", val |-> <<>>, why |-> e]
Panic == [tag |-> "Panic", val |-> <<>>, why |-> <<>>]
IsOk(r) == r.tag = "Ok"
IsErr(r) == r.tag = "Err"
IsPanic(r) == r.tag = "Panic"

\* parser::Error
DeletedArticle == <<"DeletedArticle">>
InvalidFormat == <<"InvalidFormat">>
FieldNotFound(f) == <<"FieldNotFound", f>>

(***************************************************************************)
(* Bounds of the model.                                                    *)
(***************************************************************************)
MaxReplies == 2
MaxPage == 3
MaxUrls == 2
MaxTotalUrls == 3
MaxRuns == 3

(***************************************************************************)
(* Calendar (chrono) as parse_reply uses it.                               *)
(***************************************************************************)
I16Bits == 16

\* `n as i16`: the two's-complement truncation of a usize count.
as_i16(n) == ((n + 2^(I16Bits - 1)) % 2^I16Bits) - 2^(I16Bits - 1)

is_leap_year_no400(year) == (year % 4 = 0) /\ (year % 100 # 0)
is_leap_year(year) == (year % 4 = 0) /\ (year % 100 # 0 \/ year % 400 = 0)

\* Days of a month in chrono's proleptic Gregorian calendar.
days_in_month(year, month) ==
    CASE month \in {1, 3, 5, 7, 8, 10, 12} -> 31
      [] month \in {4, 6, 9, 11} -> 30
      [] month = 2 -> IF (year % 4 = 0) /\ (year % 100 # 0 \/ year % 400 = 0)
                      THEN 29 ELSE 28
      [] OTHER -> 0

\* TW_TIME_OFFSET.ymd_opt(year, month, day): Single(date) or None.
ymd_opt(year, month, day) ==
    IF month >= 1 /\ month <= 12 /\ day >= 1 /\ day <= days_in_month(year, month)
    THEN Some([year |-> year, month |-> month, day |-> day])
    ELSE None

\* LocalResult<Date>::and_hms_opt(hour, min, 0): Single(datetime) or None.
and_hms_opt(d, hour, min) ==
    IF IsSome(d) /\ hour < 24 /\ min < 60
    THEN Some([year |-> Unwrap(d).year, month |-> Unwrap(d).month,
               day |-> Unwrap(d).day, hour |-> hour, min |-> min])
    ELSE None

\* The loop of parse_reply, lines 413-415: while !is_leap_year(year) { year += 1 }
RECURSIVE advance_to_leap(_)
advance_to_leap(year) ==
    IF is_leap_year(year) THEN year ELSE advance_to_leap(year + 1)

\* The wall clock (the year Local::now() would give).  No line of parser.rs reads it.
VARIABLE now

reply_year_of_clock(t, month, day) ==
    IF month = 2 /\ day = 29 THEN advance_to_leap(now) ELSE now
\* parse_reply, lines 411-416: the year of the reply.
reply_year(t, month, day) ==
    IF month = 2 /\ day = 29 THEN advance_to_leap(t.year) ELSE t.year

reply_date_wall_clock(article_time, month, day, hour, min) ==
    IF IsSome(article_time)
    THEN LET r == and_hms_opt(ymd_opt(reply_year(Unwrap(article_time), month, day),
                                      month, day), hour, min)
         IN  IF IsSome(r) THEN r
             ELSE Some([year |-> 2026, month |-> 1, day |-> 1, hour |-> 0, min |-> 0])
    ELSE None
\* parse_reply, lines 410-425: article_time.and_then(|t| ...).
reply_date(article_time, month, day, hour, min) ==
    IF IsSome(article_time)
    THEN and_hms_opt(ymd_opt(reply_year(Unwrap(article_time), month, day),
                             month, day), hour, min)
    ELSE None


(***************************************************************************)
(* The abstract document.  A document is a record of what the selectors of *)
(* parser.rs find in it:                                                   *)
(*   notFound    some .bbs-content block contains "404 - Not Found."       *)
(*   canonical   the link[rel=canonical] element: "absent", "nohref" (no   *)
(*               href attribute), "nohtml" (href without ".html"), "ok"    *)
(*   id          the last segment of a well-formed canonical href, without *)
(*               ".html"; here the <<page, position>> of the listing row   *)
(*               that links to the article                                 *)
(*   ogTitle     Option: content of meta[property=og:title]                *)
(*   metaCount   number of span.article-meta-value nodes                   *)
(*   metaAuthor, metaBoard   text of the 1st and 2nd of them               *)
(*   spanTitle, spanAuthor, spanBoard   Option: text following the span    *)
(*               labelled with the field's name                            *)
(*   hasMain     div#main-content exists                                   *)
(*   rawTitle, rawAuthor   Option: text between the raw marker in the main *)
(*               content and the next newline                              *)
(*   dateText    what the date source holds: "nomatch", "bad" or "ok"      *)
(*   dateYear    the year written in a well-formed date text               *)
(*   ipFromF2    a span.f2 line with the origin marker exists              *)
(*   ipText      the IPv4-shaped token of the origin text: "none", "bad"   *)
(*               (an octet out of range) or "ok"                           *)
(*   body        the main content's markers: "ok", "nonewline", "noend"    *)
(*   pushes      the div.push nodes in page order                          *)
(* A title text is [cat, rest]; an author text is [id, name].  In the      *)
(* documents drawn here an og:title element has its content attribute and  *)
(* a labelled span has a node after it.                                    *)
(***************************************************************************)

\* The three glyphs of ReplyType and one that is none of them.
GlyphPush == "U+63A8"
GlyphNeutral == "U+2192"
GlyphBoo == "U+5653"
GlyphOther == "U+003F"

\* article.rs, ReplyType: strum's EnumString, parse::<ReplyType>().
ReplyType_from_str(s) ==
    CASE s = GlyphPush -> Ok("Push")
      [] s = GlyphNeutral -> Ok("Neutral")
      [] s = GlyphBoo -> Ok("Boo")
      [] OTHER -> Err(<<"VariantNotFound">>)

\* A subset of the BoardName enumeration (article.rs), by serialized name.
KnownBoards == {"Gossiping", "Soft_Job", "WomenTalk", "Unknown"}

\* parse::<BoardName>()
BoardName_from_str(s) ==
    IF s \in KnownBoards THEN Ok(s) ELSE Err(<<"VariantNotFound">>)

(***************************************************************************)
(* The origin+time token: what the regular expression of parse_reply       *)
(* captures in a text.  match = FALSE: the pattern matches nowhere.        *)
(* ip: "none" (group absent), "ok", or "bad" (IPv4-shaped, an octet > 255).*)
(* time: Option of [hour, min].  pre/post: the text around the match.      *)
(***************************************************************************)
NoTok == [match |-> FALSE, ip |-> "none", month |-> 0, day |-> 0, time |-> None]
Tok(ip, month, day, time) ==
    [match |-> TRUE, ip |-> ip, month |-> month, day |-> day, time |-> time]
HM(h, m) == Some([hour |-> h, min |-> m])

\* A text with at most one token in it: pre ++ token ++ post.
Text(pre, tok, post) == [pre |-> pre, tok |-> tok, post |-> post]

\* parse_reply, lines 369-384: the closure ip_and_time_parser.
ip_and_time_parser(cap) ==
    IF cap.ip = "bad" THEN Panic
    ELSE Ok([ip |-> IF cap.ip = "none" THEN None ELSE Some("addr"),
             month |-> cap.month,
             day |-> cap.day,
             hour |-> IF IsSome(cap.time) THEN Unwrap(cap.time).hour ELSE 0,
             min |-> IF IsSome(cap.time) THEN Unwrap(cap.time).min ELSE 0])

\* parse_reply, lines 396-399: the IP and what follows it are cut from the content.
strip_content(content, ip) ==
    IF IsSome(ip) THEN Text(content.pre, NoTok, "") ELSE content

Reply(author_id, reply_type, ip, date, content) ==
    [author_id |-> author_id, reply_type |-> reply_type, ip |-> ip,
     date |-> date, content |-> content]

\* parse_reply, lines 328-434.  A node is [kind, tag, author_id, content, ipdt]:
\* kind "warning" is the oversized-thread notice, "bare" a node without the
\* push-* spans (the first unwrap panics), "reply" a node with all four spans.
parse_reply(node, article_time) ==
    IF node.kind = "warning" THEN Err(InvalidFormat)
    ELSE IF node.kind = "bare" THEN Panic
    ELSE IF ~IsOk(ReplyType_from_str(node.tag)) THEN Panic
    ELSE LET in_field == node.ipdt.match
             cap == IF in_field THEN node.ipdt ELSE node.content.tok
         IN  IF ~cap.match THEN Err(InvalidFormat)
             ELSE LET p == ip_and_time_parser(cap)
                  IN  IF IsPanic(p) THEN Panic
                      ELSE Ok(Reply(node.author_id,
                                    ReplyType_from_str(node.tag).val,
                                    p.val.ip,
                                    reply_date(article_time, p.val.month,
                                               p.val.day, p.val.hour, p.val.min),
                                    IF in_field THEN node.content
                                    ELSE strip_content(node.content, p.val.ip)))

flat_map_reset(acc, r) == IF IsOk(r) THEN Append(acc, r.val) ELSE <<>>
\* parse_replies, line 324: flat_map over a Result yields the value of an Ok and
\* nothing for an Err.
flat_map_step(acc, r) == IF IsOk(r) THEN Append(acc, r.val) ELSE acc

\* parse_replies, lines 321-326: flat_map keeps the Ok replies in page order and
\* drops the Err ones; a panic of parse_reply unwinds through it.
RECURSIVE parse_replies_from(_, _, _)
parse_replies_from(nodes, article_time, acc) ==
    IF nodes = <<>> THEN Ok(acc)
    ELSE LET r == parse_reply(Head(nodes), article_time)
         IN  IF IsPanic(r) THEN Panic
             ELSE parse_replies_from(Tail(nodes), article_time, flat_map_step(acc, r))

parse_replies(doc, article_time) == parse_replies_from(doc.pushes, article_time, <<>>)

(***************************************************************************)
(* Field extractors.                                                       *)
(***************************************************************************)

\* is_article_exist, lines 54-58.
is_article_exist(doc) == ~doc.notFound

\* get_main_content, lines 293-299: unwrap() of the first div#main-content.
get_main_content(doc) == IF doc.hasMain THEN Ok("main") ELSE Panic

\* parse_id, lines 84-96: three unwraps (the element, its href, ".html").
parse_id(doc) == IF doc.canonical = "ok" THEN Ok(doc.id) ELSE Panic

\* parse_title, lines 134-144: the category pattern applied to the trimmed text.
split_title(text) == [category |-> text.cat, title |-> text.rest]

parse_title_raw_first(doc) ==
    IF IsSome(doc.ogTitle) THEN Ok(split_title(Unwrap(doc.ogTitle)))
    ELSE IF doc.hasMain /\ IsSome(doc.rawTitle)
         THEN Ok(split_title(Unwrap(doc.rawTitle)))
    ELSE IF IsSome(doc.spanTitle) THEN Ok(split_title(Unwrap(doc.spanTitle)))
    ELSE IF IsPanic(get_main_content(doc)) THEN Panic
    ELSE Err(FieldNotFound("title"))
\* parse_title, lines 98-145.
parse_title(doc) ==
    IF IsSome(doc.ogTitle) THEN Ok(split_title(Unwrap(doc.ogTitle)))
    ELSE IF IsSome(doc.spanTitle) THEN Ok(split_title(Unwrap(doc.spanTitle)))
    ELSE IF IsPanic(get_main_content(doc)) THEN Panic
    ELSE IF IsSome(doc.rawTitle) THEN Ok(split_title(Unwrap(doc.rawTitle)))
    ELSE Err(FieldNotFound("title"))

\* parse_author, lines 182-186: the "id (name)" pattern.
split_author(text) == [author_id |-> text.id, author_name |-> text.name]

\* parse_author, lines 147-187.
parse_author(doc) ==
    IF doc.metaCount >= 1 THEN Ok(split_author(doc.metaAuthor))
    ELSE IF IsSome(doc.spanAuthor) THEN Ok(split_author(Unwrap(doc.spanAuthor)))
    ELSE IF IsPanic(get_main_content(doc)) THEN Panic
    ELSE IF IsSome(doc.rawAuthor) THEN Ok(split_author(Unwrap(doc.rawAuthor)))
    ELSE Err(FieldNotFound("author"))

\* parse_board, lines 189-208.
parse_board(doc) ==
    LET to_board(text) == IF IsOk(BoardName_from_str(text))
                          THEN BoardName_from_str(text).val ELSE "Unknown"
    IN  IF doc.metaCount >= 2 THEN Ok(to_board(doc.metaBoard))
        ELSE IF IsSome(doc.spanBoard) THEN Ok(to_board(Unwrap(doc.spanBoard)))
        ELSE Err(FieldNotFound("board"))

\* parse_date_from_str, lines 237-257: only the year of the result is kept.
parse_date_from_str(doc) ==
    IF doc.dateText = "ok" THEN Ok([year |-> doc.dateYear]) ELSE Err(InvalidFormat)

\* parse_date, lines 210-235.
parse_date(doc) ==
    IF doc.metaCount >= 4 THEN parse_date_from_str(doc)
    ELSE IF IsPanic(get_main_content(doc)) THEN Panic
    ELSE IF doc.dateText = "nomatch" THEN Err(FieldNotFound("date"))
    ELSE parse_date_from_str(doc)

parse_ip_default(doc) ==
    IF ~doc.ipFromF2 /\ IsPanic(get_main_content(doc)) THEN Panic
    ELSE CASE doc.ipText = "ok" -> Ok("addr")
           [] doc.ipText = "bad" -> Ok("0.0.0.0")
           [] OTHER -> Err(FieldNotFound("ip"))
\* parse_ip, lines 259-291.
parse_ip(doc) ==
    IF ~doc.ipFromF2 /\ IsPanic(get_main_content(doc)) THEN Panic
    ELSE CASE doc.ipText = "ok" -> Ok("addr")
           [] doc.ipText = "bad" -> Err(FieldNotFound("ip"))
           [] OTHER -> Err(FieldNotFound("ip"))

\* Result::ok(): Ok(v) becomes Some(v), Err(_) becomes None.
ok(r) == IF IsOk(r) THEN Some(r.val) ELSE None

parse_meta_strict(doc) ==
    LET id == parse_id(doc)
        title == parse_title(doc)
        author == parse_author(doc)
        board == parse_board(doc)
        date == parse_date(doc)
        ip == parse_ip(doc)
    IN  IF IsPanic(id) THEN Panic
        ELSE IF ~IsOk(title) THEN title
        ELSE IF ~IsOk(author) THEN author
        ELSE IF ~IsOk(board) THEN board
        ELSE IF ~IsOk(date) THEN date
        ELSE IF IsPanic(ip) THEN Panic
        ELSE Ok([id |-> id.val,
                 category |-> IF IsSome(title.val.category)
                              THEN Unwrap(title.val.category) ELSE "",
                 title |-> title.val.title,
                 author_id |-> author.val.author_id,
                 author_name |-> author.val.author_name,
                 board |-> board.val,
                 date |-> ok(date),
                 ip |-> ok(ip)])
\* parse_meta, lines 60-82.
parse_meta(doc) ==
    LET id == parse_id(doc)
        title == parse_title(doc)
        author == parse_author(doc)
        board == parse_board(doc)
        date == parse_date(doc)
        ip == parse_ip(doc)
    IN  IF IsPanic(id) THEN Panic
        ELSE IF ~IsOk(title) THEN title
        ELSE IF ~IsOk(author) THEN author
        ELSE IF ~IsOk(board) THEN board
        ELSE IF IsPanic(date) THEN Panic
        ELSE IF IsPanic(ip) THEN Panic
        ELSE Ok([id |-> id.val,
                 category |-> IF IsSome(title.val.category)
                              THEN Unwrap(title.val.category) ELSE "",
                 title |-> title.val.title,
                 author_id |-> author.val.author_id,
                 author_name |-> author.val.author_name,
                 board |-> board.val,
                 date |-> ok(date),
                 ip |-> ok(ip)])

\* parse_content, lines 301-319.
parse_content(doc) ==
    IF IsPanic(get_main_content(doc)) THEN Panic
    ELSE IF doc.body = "nonewline" THEN Err(InvalidFormat)
    ELSE IF doc.body = "noend" THEN Err(InvalidFormat)
    ELSE Ok("body")

\* The number of replies of one type: iter().filter(..).count().
count_type(replies, type) ==
    Cardinality({i \in DOMAIN replies : replies[i].reply_type = type})

count_all(replies, type) == as_i16(Len(replies))
\* parse, lines 32-45: one counter of ReplyCount.
tally(replies, type) == as_i16(count_type(replies, type))

\* parse, lines 28-51: what follows the existence check.
extract(doc) ==
    LET meta == parse_meta(doc)
    IN  IF ~IsOk(meta) THEN meta
        ELSE LET content == parse_content(doc)
             IN  IF ~IsOk(content) THEN content
                 ELSE LET replies == parse_replies(doc, meta.val.date)
                      IN  IF IsPanic(replies) THEN Panic
                          ELSE Ok([meta |-> meta.val,
                                   content |-> content.val,
                                   reply_count |->
                                       [push |-> tally(replies.val, "Push"),
                                        neutral |-> tally(replies.val, "Neutral"),
                                        boo |-> tally(replies.val, "Boo")],
                                   replies |-> replies.val])

parse_check_last(doc) ==
    LET r == extract(doc)
    IN  IF ~IsOk(r) THEN r
        ELSE IF ~is_article_exist(doc) THEN Err(DeletedArticle) ELSE r
\* parse, lines 22-52.
parse(doc) ==
    IF ~is_article_exist(doc) THEN Err(DeletedArticle) ELSE extract(doc)

(***************************************************************************)
(* The crawler (crawler.rs).                                               *)
(***************************************************************************)

\* crawler::Error
ConnectionError(e) == <<"ConnectionError", e>>
InvalidUrl == <<"InvalidUrl">>
InvalidResponse == <<"InvalidResponse">>

(***************************************************************************)
(* A URL is [has_ptt, parsed, host, segs, page, pos]: has_ptt, the text     *)
(* contains PTT_CC_URL; parsed, what Url::parse makes of it ("err",        *)
(* "nobase" for a URL that cannot be a base, "ok"); host, its host; segs,  *)
(* its path segments; page and pos, the listing page and the position in   *)
(* it where it was discovered.                                             *)
(***************************************************************************)
PttHost == "www.ptt.cc"

Url(has_ptt, parsed, host, segs, page, pos) ==
    [has_ptt |-> has_ptt, parsed |-> parsed, host |-> host, segs |-> segs,
     page |-> page, pos |-> pos]

\* compose_page_url, lines 205-212.
compose_page_url(board, page) ==
    Url(TRUE, "ok", PttHost, <<"bbs", board, "index.html">>, page, 0)

\* is_supported_url, lines 172-177: the predicates zipped with the path segments.
valid_path(i, segment) ==
    IF i = 1 THEN segment = "bbs" ELSE IsOk(BoardName_from_str(segment))

\* is_supported_url, lines 167-187; path_segments().unwrap() panics on a URL
\* that cannot be a base.
is_supported_url(url) ==
    IF ~url.has_ptt THEN Ok(FALSE)
    ELSE IF url.parsed = "err" THEN Ok(FALSE)
    ELSE IF url.parsed = "nobase" THEN Panic
    ELSE Ok(\A i \in 1..(IF Len(url.segs) < 2 THEN Len(url.segs) ELSE 2) :
               valid_path(i, url.segs[i]))

(***************************************************************************)
(* A response to one GET is [kind, body]: kind "send_err" (send() fails),  *)
(* "bad_status", "text_err" (the body cannot be read) or "ok".             *)
(***************************************************************************)
Resp(kind, body) == [kind |-> kind, body |-> body]

\* transform_to_document, lines 189-203; n numbers the request.
transform_to_document(resp, n) ==
    CASE resp.kind = "send_err" -> Err(ConnectionError(n))
      [] resp.kind = "bad_status" -> Err(InvalidResponse)
      [] resp.kind = "text_err" -> Err(InvalidResponse)
      [] OTHER -> Ok(resp.body)

\* crawl_one_page_urls, lines 219-224: the rows of class "title" whose anchor has
\* a non-empty text.  A row is [anchor, href], anchor "none", "empty", "nohref", "ok".
linked_rows(rows) == SelectSeq(rows, LAMBDA row : row.anchor \in {"nohref", "ok"})

\* crawl_one_page_urls, lines 214-232; attr("href").unwrap() panics.
crawl_one_page_urls(page, resp, n) ==
    LET document == transform_to_document(resp, n)
    IN  IF IsErr(document) THEN document
        ELSE LET rows == linked_rows(document.val)
             IN  IF \E i \in DOMAIN rows : rows[i].anchor = "nohref" THEN Panic
                 ELSE Ok([i \in DOMAIN rows |->
                             Url(TRUE, "ok", PttHost, rows[i].href, page, i)])

\* crawl_url, lines 78-89.
crawl_url(url, resp, n) ==
    LET supported == is_supported_url(url)
    IN  IF IsPanic(supported) THEN Panic
        ELSE IF ~supported.val THEN Err(InvalidUrl)
        ELSE LET document == transform_to_document(resp, n)
             IN  IF IsErr(document) THEN document
                 ELSE LET r == parse(document.val)
                      IN  IF IsPanic(r) THEN Panic
                          ELSE IF IsErr(r) THEN Err(InvalidResponse)
                          ELSE r

(***************************************************************************)
(* The documents and reply nodes the model draws its inputs from.          *)
(***************************************************************************)
TitleText(cat, rest) == [cat |-> cat, rest |-> rest]
AuthorText(id, name) == [id |-> id, name |-> name]

\* A page of the modern rendering with every field in place and no reply.
GoodDoc ==
    [notFound |-> FALSE, canonical |-> "ok", id |-> <<0, 0>>,
     ogTitle |-> Some(TitleText(Some("cat"), "og title")),
     metaCount |-> 4,
     metaAuthor |-> AuthorText("meta_id", Some("name")),
     metaBoard |-> "Gossiping",
     spanTitle |-> None, spanAuthor |-> None, spanBoard |-> None,
     hasMain |-> TRUE, rawTitle |-> None, rawAuthor |-> None,
     dateText |-> "ok", dateYear |-> 2007,
     ipFromF2 |-> TRUE, ipText |-> "ok",
     body |-> "ok", pushes |-> <<>>]

Node(kind, tag, content, ipdt) ==
    [kind |-> kind, tag |-> tag, author_id |-> "user", content |-> content, ipdt |-> ipdt]

Plain == Text("hello", NoTok, "")
WarningNode == Node("warning", "", Plain, NoTok)
BareNode == Node("bare", "", Plain, NoTok)

\* Reply nodes of every kind, all but one with a well-formed date 03/05 12:30.
KindNodes ==
    { Node("reply", GlyphPush, Plain, Tok("ok", 3, 5, HM(12, 30))),
      Node("reply", GlyphNeutral, Text("hey ", Tok("ok", 3, 5, None), " tail"), NoTok),
      Node("reply", GlyphPush, Text("hey ", Tok("none", 3, 5, HM(12, 30)), " tail"), NoTok),
      Node("reply", GlyphBoo, Plain, Tok("none", 3, 32, HM(12, 30))),
      Node("reply", GlyphPush, Plain, NoTok),
      Node("reply", GlyphOther, Plain, Tok("ok", 3, 5, HM(12, 30))),
      Node("reply", GlyphBoo, Plain, Tok("bad", 3, 5, HM(12, 30))),
      WarningNode,
      BareNode }

\* Reply nodes over the month/day/hour/minute values around the calendar's edges.
Months == {2, 3, 13}
Days == {0, 28, 29, 31, 32}
Times == {None, HM(23, 59), HM(24, 0), HM(0, 60)}
DateNodes ==
    { Node("reply", GlyphPush, Plain, Tok(ip, mo, d, t)) :
        ip \in {"none", "ok"}, mo \in Months, d \in Days, t \in Times }

\* Article years around the leap-year rule's cases (divisible by 4, 100, 400).
Years == {1896, 1897, 1900, 2000, 2003, 2004, 2097, 2100}

SeqsUpTo(S, n) == UNION { [1..k -> S] : k \in 0..n }

\* Documents that differ in the header fields.
HeaderDocs ==
    { [GoodDoc EXCEPT !.notFound = nf, !.canonical = c, !.ogTitle = og,
                      !.metaCount = mc, !.spanTitle = st, !.spanAuthor = sa,
                      !.spanBoard = sb, !.hasMain = hm, !.rawTitle = rt,
                      !.rawAuthor = ra] :
        nf \in BOOLEAN, c \in {"absent", "nohref", "nohtml", "ok"},
        og \in {None, GoodDoc.ogTitle}, mc \in {0, 1, 2, 4},
        st \in {None, Some(TitleText(None, "span title"))},
        sa \in {None, Some(AuthorText("span_id", None))},
        sb \in {None, Some("NoSuchBoard")},
        hm \in BOOLEAN,
        rt \in {None, Some(TitleText(None, "raw title"))},
        ra \in {None, Some(AuthorText("raw_id", Some("raw name")))} }

\* Documents that differ in the date, the origin address, the body and the replies.
TailDocs ==
    { [GoodDoc EXCEPT !.notFound = nf, !.metaCount = mc, !.hasMain = hm,
                      !.dateText = dt, !.ipFromF2 = f2, !.ipText = ip,
                      !.body = b, !.pushes = ps] :
        nf \in BOOLEAN, mc \in {2, 4}, hm \in BOOLEAN,
        dt \in {"nomatch", "bad", "ok"}, f2 \in BOOLEAN,
        ip \in {"none", "bad", "ok"}, b \in {"ok", "nonewline", "noend"},
        ps \in {<<>>, <<BareNode>>} }

\* Documents that differ in their reply nodes, with and without an article date.
ThreadDocs ==
    { [GoodDoc EXCEPT !.dateText = dt, !.pushes = ps] :
        dt \in {"bad", "ok"}, ps \in SeqsUpTo(KindNodes, MaxReplies) }

\* Documents with one dated reply, over the article years.
DatedDocs ==
    { [GoodDoc EXCEPT !.dateYear = y, !.pushes = <<n>>] :
        y \in Years, n \in DateNodes }

\* Documents that differ in the optional fields: category, author name, date
\* and origin address, and in two of the required ones.
SoftDocs ==
    { [GoodDoc EXCEPT !.canonical = c, !.ogTitle = og, !.metaAuthor = ma,
                      !.dateText = dt, !.ipText = ip, !.body = b] :
        c \in {"absent", "ok"},
        og \in {GoodDoc.ogTitle, Some(TitleText(None, "og title"))},
        ma \in {GoodDoc.metaAuthor, AuthorText("meta_id", None)},
        dt \in {"nomatch", "bad", "ok"}, ip \in {"none", "bad", "ok"},
        b \in {"ok", "nonewline", "noend"} }

\* Documents whose title and author places are absent, present with an empty
\* text, or present with a text.
BlankDocs ==
    { [GoodDoc EXCEPT !.ogTitle = og, !.spanTitle = st, !.rawTitle = rt,
                      !.metaCount = mc, !.metaAuthor = ma, !.spanAuthor = sa,
                      !.rawAuthor = ra, !.spanBoard = Some("Gossiping")] :
        og \in {None, Some(TitleText(None, "")), GoodDoc.ogTitle},
        st \in {None, Some(TitleText(None, "")), Some(TitleText(None, "span title"))},
        rt \in {None, Some(TitleText(None, "raw title"))},
        mc \in {0, 4},
        ma \in {AuthorText("", None), GoodDoc.metaAuthor},
        sa \in {None, Some(AuthorText("", None)), Some(AuthorText("span_id", None))},
        ra \in {None, Some(AuthorText("raw_id", Some("raw name")))} }

Docs ==
    HeaderDocs \cup TailDocs \cup ThreadDocs \cup DatedDocs \cup SoftDocs \cup BlankDocs

\* The documents parsed repeatedly, and the one parsed in between.
RepeatDocs == ThreadDocs \cup DatedDocs
OtherDoc ==
    [GoodDoc EXCEPT !.dateYear = 2011,
                    !.pushes = <<Node("reply", GlyphBoo, Plain, Tok("ok", 2, 29, None))>>]

\* The year the clock starts at.
StartYear == 2024

\* What the site serves for the article linked at <<page, pos>>.
CrawlDocs(page, pos) ==
    { [GoodDoc EXCEPT !.id = <<page, pos>>],
      [GoodDoc EXCEPT !.id = <<page, pos>>, !.notFound = TRUE],
      [GoodDoc EXCEPT !.id = <<page, pos>>, !.ogTitle = None],
      [GoodDoc EXCEPT !.id = <<page, pos>>, !.canonical = "absent"] }

Failures == { Resp(k, <<>>) : k \in {"send_err", "bad_status", "text_err"} }

ArticleResponses(url) ==
    Failures \cup { Resp("ok", d) : d \in CrawlDocs(url.page, url.pos) }

Hrefs == { <<"bbs", "Gossiping", "M.html">>, <<"bbs", "NoSuchBoard", "M.html">> }
Rows ==
    { [anchor |-> a, href |-> <<>>] : a \in {"none", "empty", "nohref"} }
    \cup { [anchor |-> "ok", href |-> h] : h \in Hrefs }

PageResponses ==
    Failures \cup { Resp("ok", rows) : rows \in SeqsUpTo(Rows, MaxUrls) }

\* The URLs a caller may hand to crawl_url: every host and path below, with and
\* without PTT_CC_URL in the text, and two texts that have no host and no path.
Hosts == {PttHost, "www.ptt.cc.example.com", "www.google.com"}
Paths ==
    { <<"">>, <<"bbs">>, <<"bbs", "">>, <<"bbs", "Gossiping">>,
      <<"bbs", "Gossiping", "M.html">>, <<"bbs", "NoSuchBoard", "M.html">>,
      <<"man", "Gossiping", "M.html">>, <<"Gossiping", "bbs", "M.html">> }
Urls ==
    { Url(c, "ok", h, segs, 1, 1) : c \in BOOLEAN, h \in Hosts, segs \in Paths }
    \cup { Url(c, pr, "", <<>>, 1, 1) : c \in BOOLEAN, pr \in {"err", "nobase"} }

(***************************************************************************)
(* State.                                                                  *)
(*   op              the function called: "crawl_page_urls",               *)
(*                   "crawl_page_articles" or "crawl_url"                  *)
(*   range           <<start, end>> of the inclusive page range            *)
(*   pc              "page_loop", "article_loop", "call" (of crawl_url),   *)
(*                   "done" (the call has returned) or "panicked" (it      *)
(*                   unwound)                                              *)
(*   page_num        the page the loop of crawl_page_urls is at            *)
(*   article_urls, error_urls          locals of crawl_page_urls           *)
(*   idx, articles, error_articles     locals of crawl_page_articles       *)
(*   result          what the call returned                                *)
(*   pageLog         history: what crawl_one_page_urls returned, per page  *)
(*   crawlLog        history: what crawl_url returned, per discovered URL  *)
(*   fetchLog        history: the URLs requested, in order                 *)
(*   doc, presult    the document given to parse, and what parse returned  *)
(*   runs            history: the calls of parse so far, each with its     *)
(*                   document, the clock at the call and what it returned  *)
(*   tallied         the number of replies of each type parse_replies      *)
(*                   returned for a thread                                 *)
(*   counters        the ReplyCount parse builds for that thread           *)
(***************************************************************************)
VARIABLES op, range, pc, page_num, article_urls, error_urls,
          idx, articles, error_articles, result,
          pageLog, crawlLog, fetchLog, doc, presult, runs, tallied, counters

crawlVars == <<op, range, pc, page_num, article_urls, error_urls,
               idx, articles, error_articles, result, pageLog, crawlLog, fetchLog>>
parseVars == <<doc, presult, now, runs, tallied, counters>>
vars == <<crawlVars, parseVars>>

Pending == [tag |-> "Pending", val |-> <<>>, why |-> <<>>]

\* A thread without replies.
NoReplies == [push |-> 0, neutral |-> 0, boo |-> 0]

\* The locals as lines 103-104 and 141-142 set them.
CrawlInit ==
    /\ pc = "page_loop"
    /\ page_num = range[1]
    /\ article_urls = <<>>
    /\ error_urls = InvalidResponse
    /\ idx = 1
    /\ articles = <<>>
    /\ error_articles = InvalidResponse
    /\ result = Pending
    /\ pageLog = <<>>
    /\ crawlLog = <<>>
    /\ fetchLog = <<>>

Init ==
    /\ op \in {"crawl_page_urls", "crawl_page_articles"}
    /\ range \in (1..MaxPage) \X (1..MaxPage)
    /\ CrawlInit
    /\ doc = GoodDoc
    /\ presult = Pending
    /\ now = StartYear
    /\ runs = <<>>
    /\ tallied = NoReplies
    /\ counters = Pending

keep_first(error, e) == IF error = InvalidResponse THEN e ELSE error
\* lines 111 and 149: error = e.
record_error(error, e) == e

prepend(list, items) == items \o list
\* line 108, article_urls.append(&mut urls), and line 146, articles.push(article).
append(list, items) == list \o items

merge_page_reset(list, r) == IF IsOk(r) THEN append(list, r.val) ELSE <<>>
\* crawl_page_urls, lines 107-113: what the match leaves in article_urls.
merge_page(list, r) == IF IsOk(r) THEN append(list, r.val) ELSE list

merge_article_reset(list, r) == IF IsOk(r) THEN append(list, <<r.val>>) ELSE <<>>
\* crawl_page_articles, lines 145-151: what the match leaves in articles.
merge_article(list, r) == IF IsOk(r) THEN append(list, <<r.val>>) ELSE list

retry_page(page, r) == IF IsErr(r) /\ pageLog = <<>> THEN page ELSE page + 1
\* crawl_page_urls, line 105: the for loop takes the next page of the range,
\* whatever the match on the page's result did.
next_page(page, r) == page + 1

\* crawl_page_urls, lines 105-114: one iteration of the loop over the range.
CrawlOnePage ==
    /\ pc = "page_loop"
    /\ page_num <= range[2]
    /\ \E resp \in PageResponses :
         LET n == Len(fetchLog) + 1
             r == crawl_one_page_urls(page_num, resp, n)
         IN  /\ IsOk(r) => Len(article_urls) + Len(r.val) <= MaxTotalUrls
             /\ fetchLog' = Append(fetchLog, compose_page_url("Gossiping", page_num))
             /\ pageLog' = Append(pageLog, r)
             /\ IF IsPanic(r)
                THEN /\ pc' = "panicked"
                     /\ UNCHANGED <<page_num, article_urls, error_urls>>
                ELSE /\ pc' = pc
                     /\ page_num' = next_page(page_num, r)
                     /\ article_urls' = merge_page(article_urls, r)
                     /\ error_urls' = IF IsErr(r) THEN record_error(error_urls, r.why)
                                      ELSE error_urls
    /\ UNCHANGED <<op, range, idx, articles, error_articles, result, crawlLog>>
    /\ UNCHANGED parseVars

urls_result_always_ok(urls, error) == Ok(urls)
\* crawl_page_urls, lines 122-126.
urls_result(urls, error) == IF urls = <<>> THEN Err(error) ELSE Ok(urls)

\* crawl_page_urls returns; crawl_page_articles, line 143, propagates its error
\* or starts the loop over the URLs.
FinishPages ==
    /\ pc = "page_loop"
    /\ page_num > range[2]
    /\ LET r == urls_result(article_urls, error_urls)
       IN  IF op = "crawl_page_urls" \/ IsErr(r)
           THEN /\ result' = r
                /\ pc' = "done"
           ELSE /\ result' = result
                /\ pc' = "article_loop"
    /\ UNCHANGED <<op, range, page_num, article_urls, error_urls, idx, articles,
                   error_articles, pageLog, crawlLog, fetchLog>>
    /\ UNCHANGED parseVars

\* crawl_page_articles, lines 144-152: one iteration of the loop over the URLs.
CrawlOneUrl ==
    /\ pc = "article_loop"
    /\ idx <= Len(article_urls)
    /\ \E resp \in ArticleResponses(article_urls[idx]) :
         LET url == article_urls[idx]
             n == Len(fetchLog) + 1
             r == crawl_url(url, resp, n)
             fetched == IsOk(is_supported_url(url)) /\ is_supported_url(url).val
         IN  /\ fetchLog' = IF fetched THEN Append(fetchLog, url) ELSE fetchLog
             /\ crawlLog' = Append(crawlLog, [url |-> url, r |-> r])
             /\ IF IsPanic(r)
                THEN /\ pc' = "panicked"
                     /\ UNCHANGED <<idx, articles, error_articles>>
                ELSE /\ pc' = pc
                     /\ idx' = idx + 1
                     /\ articles' = merge_article(articles, r)
                     /\ error_articles' = IF IsErr(r)
                                          THEN record_error(error_articles, r.why)
                                          ELSE error_articles
    /\ UNCHANGED <<op, range, page_num, article_urls, error_urls, result, pageLog>>
    /\ UNCHANGED parseVars

\* crawl_page_articles, lines 160-164.
articles_result(list, error) == IF list = <<>> THEN Err(error) ELSE Ok(list)

FinishUrls ==
    /\ pc = "article_loop"
    /\ idx > Len(article_urls)
    /\ result' = articles_result(articles, error_articles)
    /\ pc' = "done"
    /\ UNCHANGED <<op, range, page_num, article_urls, error_urls, idx, articles,
                   error_articles, pageLog, crawlLog, fetchLog>>
    /\ UNCHANGED parseVars

Next == CrawlOnePage \/ FinishPages \/ CrawlOneUrl \/ FinishUrls

Spec == Init /\ [][Next]_vars

(***************************************************************************)
(* crawl_url called on one URL.                                            *)
(***************************************************************************)
UrlInit ==
    /\ op = "crawl_url"
    /\ range = <<1, 1>>
    /\ pc = "call"
    /\ page_num = 1
    /\ article_urls \in { <<url>> : url \in Urls }
    /\ error_urls = InvalidResponse
    /\ idx = 1
    /\ articles = <<>>
    /\ error_articles = InvalidResponse
    /\ result = Pending
    /\ pageLog = <<>>
    /\ crawlLog = <<>>
    /\ fetchLog = <<>>
    /\ doc = GoodDoc
    /\ presult = Pending
    /\ now = StartYear
    /\ runs = <<>>
    /\ tallied = NoReplies
    /\ counters = Pending

\* crawl_url, lines 78-89.
CrawlUrl ==
    /\ pc = "call"
    /\ \E resp \in ArticleResponses(article_urls[1]) :
         LET url == article_urls[1]
             r == crawl_url(url, resp, 1)
             fetched == IsOk(is_supported_url(url)) /\ is_supported_url(url).val
         IN  /\ fetchLog' = IF fetched THEN Append(fetchLog, url) ELSE fetchLog
             /\ crawlLog' = Append(crawlLog, [url |-> url, r |-> r])
             /\ result' = IF IsPanic(r) THEN result ELSE r
             /\ pc' = IF IsPanic(r) THEN "panicked" ELSE "done"
    /\ UNCHANGED <<op, range, page_num, article_urls, error_urls, idx, articles,
                   error_articles, pageLog>>
    /\ UNCHANGED parseVars

UrlNext == CrawlUrl

SpecUrl == UrlInit /\ [][UrlNext]_vars

(***************************************************************************)
(* The parser applied to one document.                                     *)
(***************************************************************************)
ParseInit ==
    /\ op = "crawl_page_urls"
    /\ range = <<1, 1>>
    /\ CrawlInit
    /\ doc \in Docs
    /\ presult = Pending
    /\ now = StartYear
    /\ runs = <<>>
    /\ tallied = NoReplies
    /\ counters = Pending

ParseDocument ==
    /\ presult = Pending
    /\ presult' = parse(doc)
    /\ UNCHANGED <<doc, now, runs, tallied, counters>>
    /\ UNCHANGED crawlVars

ParseNext == ParseDocument

SpecParse == ParseInit /\ [][ParseNext]_vars

(***************************************************************************)
(* The reply counters of a thread, given the number of replies of each     *)
(* type that parse_replies returned for it.                                *)
(***************************************************************************)
\* Numbers of replies around the ends of the 16-bit ranges.
ThreadSizes ==
    {0, 1, 2^(I16Bits - 1) - 1, 2^(I16Bits - 1), 2^(I16Bits - 1) + 1,
     2^I16Bits - 1, 2^I16Bits}

TallyInit ==
    /\ op = "crawl_page_urls"
    /\ range = <<1, 1>>
    /\ CrawlInit
    /\ doc = GoodDoc
    /\ presult = Pending
    /\ now = StartYear
    /\ runs = <<>>
    /\ tallied \in [push : ThreadSizes, neutral : ThreadSizes, boo : ThreadSizes]
    /\ counters = Pending

\* parse, lines 32-45: each counter is the count of its type, cast to i16.
CountReplies ==
    /\ counters = Pending
    /\ counters' = [push |-> as_i16(tallied.push),
                    neutral |-> as_i16(tallied.neutral),
                    boo |-> as_i16(tallied.boo)]
    /\ UNCHANGED <<doc, presult, now, runs, tallied>>
    /\ UNCHANGED crawlVars

TallyNext == CountReplies

SpecTally == TallyInit /\ [][TallyNext]_vars

(***************************************************************************)
(* The parser called again and again, on one document and on another one,  *)
(* while the clock advances.                                               *)
(***************************************************************************)
Run(d, at, r) == [doc |-> d, at |-> at, r |-> r]

RepeatInit ==
    /\ op = "crawl_page_urls"
    /\ range = <<1, 1>>
    /\ CrawlInit
    /\ doc \in RepeatDocs
    /\ presult = Pending
    /\ now = StartYear
    /\ runs = <<>>
    /\ tallied = NoReplies
    /\ counters = Pending

\* parse(&document) on the document at hand; the call takes time.
ParseAgain ==
    /\ Len(runs) < MaxRuns
    /\ runs' = Append(runs, Run(doc, now, parse(doc)))
    /\ now' = now + 1
    /\ UNCHANGED <<doc, presult, tallied, counters>>
    /\ UNCHANGED crawlVars

\* parse(&document) on another document.
ParseOther ==
    /\ Len(runs) < MaxRuns
    /\ runs' = Append(runs, Run(OtherDoc, now, parse(OtherDoc)))
    /\ now' = now + 1
    /\ UNCHANGED <<doc, presult, tallied, counters>>
    /\ UNCHANGED crawlVars

RepeatNext == ParseAgain \/ ParseOther

SpecRepeat == RepeatInit /\ [][RepeatNext]_vars

(***************************************************************************)
(* What the histories say, computed apart from the program's own locals.   *)
(***************************************************************************)
RECURSIVE OkValues(_)
\* The values of the Ok entries of a log of results, in order.
OkValues(log) ==
    IF log = <<>> THEN <<>>
    ELSE (IF IsOk(Head(log)) THEN <<Head(log).val>> ELSE <<>>) \o OkValues(Tail(log))

RECURSIVE ErrValues(_)
\* The errors of the Err entries of a log of results, in order.
ErrValues(log) ==
    IF log = <<>> THEN <<>>
    ELSE (IF IsErr(Head(log)) THEN <<Head(log).why>> ELSE <<>>) \o ErrValues(Tail(log))

RECURSIVE Flatten(_)
Flatten(lists) == IF lists = <<>> THEN <<>> ELSE Head(lists) \o Flatten(Tail(lists))

\* The URLs of the pages whose listing was fetched, page after page.
ListedUrls == Flatten(OkValues(pageLog))
CrawlResults == [i \in DOMAIN crawlLog |-> crawlLog[i].r]
\* The articles of the URLs whose crawl succeeded, URL after URL.
RecoveredArticles == OkValues(CrawlResults)
\* Every error the call has met, in the order it met them.
ErrorsSeen == ErrValues(pageLog) \o ErrValues(CrawlResults)
PagesInRange == IF range[2] >= range[1] THEN range[2] - range[1] + 1 ELSE 0
SomePageFailed == \E i \in DOMAIN pageLog : IsErr(pageLog[i])
Returned == pc = "done"

\* <<page, position>> of a listed URL or of a crawled article.
Key(item) == IF op = "crawl_page_urls" THEN <<item.page, item.pos>> ELSE item.meta.id
Before(a, b) == a[1] < b[1] \/ (a[1] = b[1] /\ a[2] < b[2])

(***************************************************************************)
(* C1.  A page whose listing cannot be fetched does not abort the range    *)
(* crawl: it adds nothing to the list, every page of the range is still    *)
(* tried, and a call that returns with anything recovered returns Ok with  *)
(* exactly what the other pages gave, in order.                            *)
(***************************************************************************)
C1_PageFailureDoesNotAbort ==
    SomePageFailed =>
        /\ article_urls = ListedUrls
        /\ pc = "page_loop" => page_num = range[1] + Len(pageLog)
        /\ pc \in {"article_loop", "done"} => Len(pageLog) = PagesInRange
        /\ (Returned /\ op = "crawl_page_urls" /\ ListedUrls # <<>>)
               => result = Ok(ListedUrls)
        /\ (Returned /\ op = "crawl_page_articles" /\ RecoveredArticles # <<>>)
               => /\ result = Ok(RecoveredArticles)
                  /\ \A i \in DOMAIN crawlLog : crawlLog[i].url = ListedUrls[i]

\* Pages 1..3, page 2 fails: the articles of page 1, then those of page 3.
C1_Witness ==
    /\ Returned /\ op = "crawl_page_articles" /\ range = <<1, 3>>
    /\ IsOk(pageLog[1]) /\ IsErr(pageLog[2]) /\ IsOk(pageLog[3])
    /\ IsOk(result) /\ Len(result.val) = 2
    /\ result.val[1].meta.id[1] = 1
    /\ result.val[2].meta.id[1] = 3

(***************************************************************************)
(* C2.  A returned list is ordered by page, then by position in the page's *)
(* listing, whichever pages and articles failed.                           *)
(***************************************************************************)
C2_ListingOrder ==
    (Returned /\ IsOk(result)) =>
        \A i, j \in DOMAIN result.val :
            i < j => Before(Key(result.val[i]), Key(result.val[j]))

\* Two articles of one page and one of a later page, around a failed page.
C2_Witness ==
    /\ Returned /\ op = "crawl_page_articles" /\ IsOk(result)
    /\ SomePageFailed
    /\ Len(result.val) = 3
    /\ result.val[1].meta.id[1] = result.val[2].meta.id[1]
    /\ result.val[2].meta.id[1] < result.val[3].meta.id[1]

(***************************************************************************)
(* C3.  A range crawl that returns, returns Err exactly when it recovered  *)
(* nothing over the whole range (no article for crawl_page_articles, no    *)
(* URL for crawl_page_urls); an Ok list is never empty.                    *)
(***************************************************************************)
C3_ErrIffNothingRecovered ==
    Returned =>
        /\ result.tag \in {"Ok", "Err"}
        /\ IsErr(result) <=> (IF op = "crawl_page_urls" THEN ListedUrls = <<>>
                              ELSE RecoveredArticles = <<>>)
        /\ IsOk(result) => result.val # <<>>

\* URLs were found and every one of them failed: an error, not an empty list.
C3_Witness ==
    /\ Returned /\ op = "crawl_page_articles" /\ IsErr(result)
    /\ Len(crawlLog) >= 2

(***************************************************************************)
(* C4.  As claimed: a range crawl that fails returns the last error it     *)
(* met during the call, in every sequence of outcomes of its pages and     *)
(* articles, the one where every page is fetched and nothing found         *)
(* included.                                                               *)
(***************************************************************************)
C4_Original ==
    (Returned /\ IsErr(result) /\ pageLog # <<>>) =>
        /\ ErrorsSeen # <<>>
        /\ result.why = ErrorsSeen[Len(ErrorsSeen)]

(***************************************************************************)
(* C4, amended.  A range crawl that fails returns the last error it met,   *)
(* and Error::InvalidResponse, the initial value of its error slot, when   *)
(* it met none (every page fetched and no item found, or an empty range).  *)
(***************************************************************************)
C4_LastErrorOrPlaceholder ==
    (Returned /\ IsErr(result)) =>
        result.why = IF ErrorsSeen = <<>> THEN InvalidResponse
                     ELSE ErrorsSeen[Len(ErrorsSeen)]

\* A connection error on a listing, then bad responses for every article.
C4_Witness ==
    /\ Returned /\ IsErr(result)
    /\ Len(ErrorsSeen) >= 2
    /\ ErrorsSeen[1][1] = "ConnectionError"
    /\ result.why = InvalidResponse

(***************************************************************************)
(* C5.  In crawl_page_articles a crawl_url that returns an error stops     *)
(* nothing: the loop goes on to the next URL, every discovered URL is      *)
(* tried, and the list holds one article for each URL whose crawl          *)
(* succeeded, in order, and none for the others.                           *)
(***************************************************************************)
C5_ArticleFailureIsolated ==
    (op = "crawl_page_articles" /\ pc \in {"article_loop", "done"}) =>
        /\ articles = RecoveredArticles
        /\ \A i \in DOMAIN crawlLog : crawlLog[i].url = article_urls[i]
        /\ \A i \in DOMAIN articles :
               \E j \in DOMAIN crawlLog :
                   /\ IsOk(crawlLog[j].r)
                   /\ articles[i].meta.id = <<crawlLog[j].url.page, crawlLog[j].url.pos>>
        /\ pc = "article_loop" => idx = Len(crawlLog) + 1
        /\ Returned => /\ Len(crawlLog) = Len(article_urls)
                       /\ IsOk(result) => result.val = RecoveredArticles

\* The first URL fails, the second is still fetched and returned.
C5_Witness ==
    /\ Returned /\ op = "crawl_page_articles" /\ IsOk(result)
    /\ Len(crawlLog) >= 2
    /\ IsErr(crawlLog[1].r)
    /\ IsOk(crawlLog[2].r)

(***************************************************************************)
(* What a page's reply nodes say, computed apart from parse_reply.         *)
(***************************************************************************)
Parsed == presult # Pending
Glyphs == {GlyphPush, GlyphNeutral, GlyphBoo}
TypeOfGlyph(g) ==
    CASE g = GlyphPush -> "Push" [] g = GlyphNeutral -> "Neutral" [] OTHER -> "Boo"

\* The token of a node: in its ip/datetime field or else in its content.
TokenOf(node) == IF node.ipdt.match THEN node.ipdt ELSE node.content.tok
HourOf(tok) == IF IsSome(tok.time) THEN Unwrap(tok.time).hour ELSE 0
MinOf(tok) == IF IsSome(tok.time) THEN Unwrap(tok.time).min ELSE 0

\* A node with a known glyph and an origin+time token: a reply to keep.
IsReply(node) ==
    /\ node.kind = "reply"
    /\ node.tag \in Glyphs
    /\ TokenOf(node).match
RepliesOf(d) == SelectSeq(d.pushes, IsReply)

\* No calendar has this month/day/hour/minute, whatever the year.
NoSuchTime(tok) ==
    \/ tok.month \notin 1..12
    \/ tok.day \notin 1..31
    \/ (tok.month = 2 /\ tok.day > 29)
    \/ HourOf(tok) \notin 0..23
    \/ MinOf(tok) \notin 0..59

\* The Gregorian rule, and the first leap year at or after y.
GregorianLeap(y) == (y % 4 = 0 /\ y % 100 # 0) \/ y % 400 = 0
FirstLeapFrom(y) ==
    CHOOSE z \in y..(y + 8) : GregorianLeap(z) /\ \A w \in y..(z - 1) : ~GregorianLeap(w)

(***************************************************************************)
(* C6.  As claimed, the tally invariant: in every article parse returns,   *)
(* each counter of reply_count is the number of replies of that type, and  *)
(* the three add up to the number of replies, for the replies of a parsed  *)
(* page and for a thread of any size.                                      *)
(***************************************************************************)
C6_TallyMatchesReplies ==
    /\ IsOk(presult) =>
           LET a == presult.val
               n(type) == Len(SelectSeq(a.replies, LAMBDA r : r.reply_type = type))
           IN  /\ a.reply_count.push = n("Push")
               /\ a.reply_count.neutral = n("Neutral")
               /\ a.reply_count.boo = n("Boo")
               /\ a.reply_count.push + a.reply_count.neutral + a.reply_count.boo
                      = Len(a.replies)
    /\ counters # Pending =>
           /\ counters.push = tallied.push
           /\ counters.neutral = tallied.neutral
           /\ counters.boo = tallied.boo
           /\ counters.push + counters.neutral + counters.boo
                  = tallied.push + tallied.neutral + tallied.boo

\* An article with one push and one boo.
C6_Witness ==
    /\ IsOk(presult)
    /\ Len(presult.val.replies) = 2
    /\ presult.val.reply_count = [push |-> 1, neutral |-> 0, boo |-> 1]

(***************************************************************************)
(* C7.  Deleted detection short-circuits: a document with the 404 marker   *)
(* in a bbs-content block parses to DeletedArticle, whatever else it holds,*)
(* also when a later extraction step would fail or panic.                  *)
(***************************************************************************)
C7_DeletedShortCircuits ==
    (Parsed /\ doc.notFound) => presult = Err(DeletedArticle)

\* A deleted page that has no canonical link either.
C7_Witness ==
    /\ Parsed /\ doc.notFound /\ doc.canonical = "absent"
    /\ presult = Err(DeletedArticle)

(***************************************************************************)
(* C8.  As claimed: a page that is not deleted and lacks nothing but a     *)
(* canonical link, or the ".html" of its href, parses to                   *)
(* Err(FieldNotFound), a typed result.                                     *)
(***************************************************************************)
C8_MissingIdIsTypedError ==
    (Parsed /\ ~doc.notFound /\ doc.canonical \in {"absent", "nohtml"}
            /\ IsOk(parse([doc EXCEPT !.canonical = "ok"])))
        => presult = Err(FieldNotFound("id"))

(***************************************************************************)
(* C9.  Leap-day rollover: with an article dated in year Y, a kept reply   *)
(* stamped 02/29 at a valid time of day is dated in the first Gregorian    *)
(* leap year at or after Y, and any other dated reply in Y itself.         *)
(***************************************************************************)
C9_LeapDayRollover ==
    (IsOk(presult) /\ IsSome(presult.val.meta.date)
                   /\ Len(presult.val.replies) = Len(RepliesOf(doc))) =>
        LET y == Unwrap(presult.val.meta.date).year
        IN  \A i \in DOMAIN presult.val.replies :
                LET tok == TokenOf(RepliesOf(doc)[i])
                    date == presult.val.replies[i].date
                IN  IF tok.month = 2 /\ tok.day = 29
                    THEN (HourOf(tok) < 24 /\ MinOf(tok) < 60) =>
                             /\ IsSome(date)
                             /\ Unwrap(date).year = FirstLeapFrom(y)
                             /\ Unwrap(date).year >= y
                    ELSE IsSome(date) => Unwrap(date).year = y

\* 02/29 under an article of 1897: 1900 is no leap year, the reply is of 1904.
C9_Witness ==
    /\ IsOk(presult) /\ doc.dateYear = 1897
    /\ Len(presult.val.replies) = 1
    /\ IsSome(presult.val.replies[1].date)
    /\ Unwrap(presult.val.replies[1].date).month = 2
    /\ Unwrap(presult.val.replies[1].date).day = 29
    /\ Unwrap(presult.val.replies[1].date).year = 1904

(***************************************************************************)
(* C10.  A reply whose month/day/hour/minute is no calendar time is kept:  *)
(* the article has one reply per reply node, in page order, each with the  *)
(* node's type, author and content, the date of such a reply is None, and  *)
(* the tally counts it.                                                    *)
(***************************************************************************)
C10_UndatedReplyKept ==
    IsOk(presult) =>
        LET a == presult.val
            nodes == RepliesOf(doc)
        IN  /\ Len(a.replies) = Len(nodes)
            /\ \A i \in DOMAIN nodes :
                   /\ a.replies[i].reply_type = TypeOfGlyph(nodes[i].tag)
                   /\ a.replies[i].author_id = nodes[i].author_id
                   /\ nodes[i].ipdt.match => a.replies[i].content = nodes[i].content
                   /\ NoSuchTime(TokenOf(nodes[i])) => a.replies[i].date = None
            /\ a.reply_count.push + a.reply_count.neutral + a.reply_count.boo
                   = Len(nodes)

\* A boo stamped 03/32 under a dated article: kept, undated, counted.
C10_Witness ==
    /\ IsOk(presult) /\ IsSome(presult.val.meta.date)
    /\ Len(doc.pushes) = 1 /\ doc.pushes[1].ipdt.day = 32
    /\ Len(presult.val.replies) = 1
    /\ presult.val.replies[1].reply_type = "Boo"
    /\ presult.val.replies[1].date = None
    /\ presult.val.reply_count.boo = 1

(***************************************************************************)
(* C11.  The origin address is a soft field: when the origin text has no   *)
(* IPv4-shaped token, or its token has an octet out of range, parse_ip     *)
(* reports FieldNotFound and an article that parses with a good address    *)
(* parses to the same article with meta.ip = None: no default address, no  *)
(* error.                                                                  *)
(***************************************************************************)
C11_IpSoftField ==
    (Parsed /\ ~doc.notFound /\ doc.ipText \in {"none", "bad"}
            /\ IsOk(parse([doc EXCEPT !.ipText = "ok"]))) =>
        LET good == parse([doc EXCEPT !.ipText = "ok"]).val
        IN  /\ parse_ip(doc) = Err(FieldNotFound("ip"))
            /\ IsOk(presult)
            /\ presult.val.meta.ip = None
            /\ good.meta.ip = Some("addr")
            /\ presult.val = [good EXCEPT !.meta.ip = None]

\* An origin line with an out-of-range octet, found in the main content.
C11_Witness ==
    /\ Parsed /\ doc.ipText = "bad" /\ ~doc.ipFromF2
    /\ IsOk(presult)
    /\ presult.val.meta.ip = None
    /\ IsSome(presult.val.meta.date)

(***************************************************************************)
(* What the header of a page says, computed apart from the extractors.     *)
(***************************************************************************)
\* The title text of the first of the three places that holds one.
TitleSource(d) ==
    IF IsSome(d.ogTitle) THEN d.ogTitle
    ELSE IF IsSome(d.spanTitle) THEN d.spanTitle
    ELSE d.rawTitle

\* The page has a place for parse_title to look in: a structured title, or
\* the main content the raw marker is searched in.
HasTitlePlace(d) == IsSome(d.ogTitle) \/ IsSome(d.spanTitle) \/ d.hasMain

(***************************************************************************)
(* C12.  Title fallback order: the title is that of og:title when the page *)
(* has one, else of the node after the span labelled with the title's      *)
(* name, else of the raw marker in the main content; a page with both      *)
(* markup and marker yields the markup's title, and a page with none of    *)
(* the three yields FieldNotFound("title").                                *)
(***************************************************************************)
C12_TitleFallbackOrder ==
    (Parsed /\ ~doc.notFound /\ doc.canonical = "ok" /\ HasTitlePlace(doc)) =>
        IF TitleSource(doc) = None
        THEN presult = Err(FieldNotFound("title"))
        ELSE /\ presult # Err(FieldNotFound("title"))
             /\ IsOk(presult) =>
                    /\ presult.val.meta.title = Unwrap(TitleSource(doc)).rest
                    /\ presult.val.meta.category =
                           (IF IsSome(Unwrap(TitleSource(doc)).cat)
                            THEN Unwrap(Unwrap(TitleSource(doc)).cat) ELSE "")

\* A legacy page, no meta-value markup: the title comes from the raw marker.
C12_Witness ==
    /\ Parsed /\ doc.metaCount = 0
    /\ doc.ogTitle = None /\ doc.spanTitle = None /\ IsSome(doc.rawTitle)
    /\ IsOk(presult)
    /\ presult.val.meta.title = "raw title"

IsArticleUrl(url) ==
    /\ url.has_ptt
    /\ url.parsed = "ok"
    /\ url.host = PttHost
    /\ Len(url.segs) >= 2
    /\ url.segs[1] = "bbs"
    /\ url.segs[2] \in KnownBoards

(***************************************************************************)
(* C14.  As claimed: for every URL that is not an article URL of the site  *)
(* (another host, or a path that does not start with "bbs" and a known     *)
(* board), crawl_url returns Err(InvalidUrl) and requests nothing.         *)
(***************************************************************************)
C14_OnlyArticleUrlsFetched ==
    (op = "crawl_url" /\ pc # "call" /\ article_urls[1].parsed = "ok"
                      /\ ~IsArticleUrl(article_urls[1])) =>
        /\ result = Err(InvalidUrl)
        /\ fetchLog = <<>>

(***************************************************************************)
(* C15.  No retry: no URL is requested twice; the requests are those of    *)
(* the pages of the range, one each and in order, followed by at most one  *)
(* for each discovered URL; a ConnectionError carries the number of the    *)
(* one request it came from, and the request after a failed one is for     *)
(* another URL.                                                            *)
(***************************************************************************)
C15_NoRetry ==
    /\ \A i, j \in DOMAIN fetchLog : i < j => fetchLog[i] # fetchLog[j]
    /\ Len(pageLog) <= PagesInRange
    /\ pc \in {"article_loop", "done"} => Len(pageLog) = PagesInRange
    /\ \A i \in DOMAIN pageLog :
           /\ fetchLog[i] = compose_page_url("Gossiping", range[1] + i - 1)
           /\ IsErr(pageLog[i]) =>
                  pageLog[i].why \in {ConnectionError(i), InvalidResponse}
    /\ Len(fetchLog) <= Len(pageLog) + Len(ListedUrls)
    /\ \A k \in DOMAIN fetchLog :
           k > Len(pageLog) => \E i \in DOMAIN ListedUrls : fetchLog[k] = ListedUrls[i]
    /\ \A i \in DOMAIN crawlLog :
           IsErr(crawlLog[i].r) =>
               \/ crawlLog[i].r.why \in {InvalidUrl, InvalidResponse}
               \/ \E n \in DOMAIN fetchLog :
                      /\ crawlLog[i].r.why = ConnectionError(n)
                      /\ fetchLog[n] = crawlLog[i].url

\* A listing and an article both fail on the connection; each was asked once.
C15_Witness ==
    /\ Returned /\ op = "crawl_page_articles" /\ IsOk(result)
    /\ \E i \in DOMAIN pageLog :
           IsErr(pageLog[i]) /\ pageLog[i].why = ConnectionError(i)
    /\ \E i \in DOMAIN crawlLog :
           IsErr(crawlLog[i].r) /\ crawlLog[i].r.why[1] = "ConnectionError"
    /\ Len(fetchLog) = Len(pageLog) + Len(crawlLog)

\* The author text of the first of the three places that holds one.
AuthorSource(d) ==
    IF d.metaCount >= 1 THEN Some(d.metaAuthor)
    ELSE IF IsSome(d.spanAuthor) THEN d.spanAuthor
    ELSE d.rawAuthor

\* The page holds an id, a title, an author, a board and the body's markers.
RequiredFieldsExtractable(d) ==
    /\ d.canonical = "ok"
    /\ d.hasMain /\ d.body = "ok"
    /\ TitleSource(d) # None
    /\ AuthorSource(d) # None
    /\ d.metaCount >= 2 \/ IsSome(d.spanBoard)

\* No reply node of the page makes parse_reply unwind.
RepliesFaultFree(d) ==
    \A i \in DOMAIN d.pushes :
        /\ d.pushes[i].kind # "bare"
        /\ d.pushes[i].kind = "reply" =>
               /\ d.pushes[i].tag \in Glyphs
               /\ TokenOf(d.pushes[i]).ip # "bad"

(***************************************************************************)
(* C16.  Assembler outcomes: a page that is not deleted and holds the      *)
(* required fields never parses to Err, and parses to Ok when its reply    *)
(* nodes do; a date, an origin address, an author name or a category that  *)
(* cannot be extracted is absent from the article (the category empty).    *)
(* An Err is never that of the date or of the address, and comes only      *)
(* from a page without a required field.                                   *)
(***************************************************************************)
C16_OptionalFieldsAreSoft ==
    (Parsed /\ ~doc.notFound) =>
        /\ RequiredFieldsExtractable(doc) =>
               /\ ~IsErr(presult)
               /\ RepliesFaultFree(doc) => IsOk(presult)
        /\ IsOk(presult) =>
               /\ doc.dateText # "ok" => presult.val.meta.date = None
               /\ doc.ipText # "ok" => presult.val.meta.ip = None
               /\ presult.val.meta.author_name = Unwrap(AuthorSource(doc)).name
               /\ Unwrap(TitleSource(doc)).cat = None => presult.val.meta.category = ""
        /\ IsErr(presult) =>
               /\ ~RequiredFieldsExtractable(doc)
               /\ presult.why \notin {FieldNotFound("date"), FieldNotFound("ip"),
                                       DeletedArticle}
               /\ presult.why = InvalidFormat => doc.body # "ok"

\* No category, no author name, no date, no address: an article all the same.
C16_Witness ==
    /\ Parsed /\ IsOk(presult)
    /\ doc.dateText = "nomatch" /\ doc.ipText = "none"
    /\ presult.val.meta.category = ""
    /\ presult.val.meta.author_name = None
    /\ presult.val.meta.date = None
    /\ presult.val.meta.ip = None
    /\ presult.val.meta.title = "og title"

\* A reply node whose tag is none of the three glyphs.
HasUnknownGlyph(node) == node.kind = "reply" /\ node.tag \notin Glyphs
WithoutUnknownGlyphs(d) ==
    [d EXCEPT !.pushes = SelectSeq(d.pushes, LAMBDA node : ~HasUnknownGlyph(node))]

(***************************************************************************)
(* C17.  As claimed: a page that parses without its reply nodes of unknown *)
(* glyph parses with them too, to the same article: such a node is         *)
(* dropped, the other replies are returned in page order, and parse        *)
(* returns Ok.                                                             *)
(***************************************************************************)
C17_UnknownGlyphDropsOneReply ==
    (Parsed /\ ~doc.notFound
            /\ \E i \in DOMAIN doc.pushes : HasUnknownGlyph(doc.pushes[i])
            /\ IsOk(parse(WithoutUnknownGlyphs(doc)))) =>
        /\ IsOk(presult)
        /\ presult = parse(WithoutUnknownGlyphs(doc))

\* The oversized-thread notice, or a reply node of known glyph with no
\* origin+time token in its ip/datetime field nor in its content.
IsInvalidFormat(node) ==
    \/ node.kind = "warning"
    \/ /\ node.kind = "reply"
       /\ node.tag \in Glyphs
       /\ ~node.ipdt.match /\ ~node.content.tok.match
WithoutInvalidFormat(d) ==
    [d EXCEPT !.pushes = SelectSeq(d.pushes, LAMBDA node : ~IsInvalidFormat(node))]

(***************************************************************************)
(* C18.  A reply node without an origin+time token, and the oversized-     *)
(* thread notice, are InvalidFormat and left out: a page that parses       *)
(* without such nodes parses with them to the same article, replies in     *)
(* page order and tally included.                                          *)
(***************************************************************************)
C18_InvalidFormatReplyDropped ==
    (Parsed /\ ~doc.notFound /\ IsOk(parse(WithoutInvalidFormat(doc)))) =>
        LET kept == WithoutInvalidFormat(doc).pushes
        IN  /\ \A i \in DOMAIN doc.pushes :
                   IsInvalidFormat(doc.pushes[i]) =>
                       parse_reply(doc.pushes[i], parse_meta(doc).val.date)
                           = Err(InvalidFormat)
            /\ IsOk(presult)
            /\ presult = parse(WithoutInvalidFormat(doc))
            /\ Len(presult.val.replies) = Len(kept)
            /\ \A i \in DOMAIN kept :
                   /\ presult.val.replies[i].reply_type = TypeOfGlyph(kept[i].tag)
                   /\ presult.val.replies[i].content.pre = kept[i].content.pre
            /\ presult.val.reply_count.push + presult.val.reply_count.neutral
                    + presult.val.reply_count.boo = Len(kept)

\* A reply without a token, then a boo: the boo alone is returned and counted.
C18_Witness ==
    /\ Parsed /\ IsOk(presult)
    /\ Len(doc.pushes) = 2
    /\ doc.pushes[1].kind = "reply" /\ IsInvalidFormat(doc.pushes[1])
    /\ doc.pushes[2].tag = GlyphBoo
    /\ Len(presult.val.replies) = 1
    /\ presult.val.replies[1].reply_type = "Boo"
    /\ presult.val.reply_count = [push |-> 0, neutral |-> 0, boo |-> 1]

\* The texts of the title's and of the author's places, in the chain's order.
TitlePlaces(d) == d.ogTitle \o d.spanTitle \o d.rawTitle
AuthorPlaces(d) ==
    (IF d.metaCount >= 1 THEN Some(d.metaAuthor) ELSE None)
        \o d.spanAuthor \o d.rawAuthor
NonEmptyTitles(d) == SelectSeq(TitlePlaces(d), LAMBDA t : t.rest # "")
NonEmptyAuthors(d) == SelectSeq(AuthorPlaces(d), LAMBDA a : a.id # "")

(***************************************************************************)
(* C19.  As claimed: the title and the author of an article are those of   *)
(* the first place of the chain that yields a non-empty value; a place     *)
(* that is present with an empty text does not win.                        *)
(***************************************************************************)
C19_FirstNonEmptyWins ==
    (Parsed /\ IsOk(presult)
            /\ NonEmptyTitles(doc) # <<>> /\ NonEmptyAuthors(doc) # <<>>) =>
        /\ presult.val.meta.title = NonEmptyTitles(doc)[1].rest
        /\ presult.val.meta.author_id = NonEmptyAuthors(doc)[1].id

(***************************************************************************)
(* C20.  As claimed: when the origin+time of a reply is found in its       *)
(* content, the reply's content is the node's content with the matched     *)
(* text cut out, whether the match holds an address or a date only, and    *)
(* the text before and after the match is kept.                            *)
(***************************************************************************)
C20_TokenCutFromContent ==
    (Parsed /\ IsOk(presult)
            /\ Len(presult.val.replies) = Len(RepliesOf(doc))) =>
        \A i \in DOMAIN presult.val.replies :
            LET node == RepliesOf(doc)[i]
            IN  ~node.ipdt.match =>
                    presult.val.replies[i].content
                        = Text(node.content.pre, NoTok, node.content.post)

\* A reply node whose origin+time token holds an address with an octet out of
\* range, and the page with the address taken out of every such token.
HasBadOctet(node) == node.kind = "reply" /\ TokenOf(node).match /\ TokenOf(node).ip = "bad"
WithoutAddress(node) ==
    IF ~HasBadOctet(node) THEN node
    ELSE IF node.ipdt.match THEN [node EXCEPT !.ipdt.ip = "none"]
    ELSE [node EXCEPT !.content.tok.ip = "none"]
WithoutBadOctets(d) ==
    [d EXCEPT !.pushes = [i \in DOMAIN d.pushes |-> WithoutAddress(d.pushes[i])]]

(***************************************************************************)
(* C21.  As claimed: a reply whose token holds an address with an octet    *)
(* out of range, before a valid MM/DD, is kept with ip None: the page      *)
(* parses to the article it parses to with the address left out of the     *)
(* token, no reply dropped, no error, no fault.                            *)
(***************************************************************************)
C21_BadOctetReplyKept ==
    (Parsed /\ ~doc.notFound
            /\ \E i \in DOMAIN doc.pushes :
                   /\ HasBadOctet(doc.pushes[i])
                   /\ doc.pushes[i].ipdt.match
                   /\ ~NoSuchTime(doc.pushes[i].ipdt)
            /\ IsOk(parse(WithoutBadOctets(doc)))) =>
        /\ IsOk(presult)
        /\ Len(presult.val.replies) = Len(parse(WithoutBadOctets(doc)).val.replies)
        /\ \A i \in DOMAIN presult.val.replies :
               presult.val.replies[i] = parse(WithoutBadOctets(doc)).val.replies[i]

(***************************************************************************)
(* C22.  As claimed: the three counters are never negative and equal the   *)
(* number of replies of their type for any number of replies, those past   *)
(* the signed 16-bit range included.                                       *)
(***************************************************************************)
C22_CountersNeverWrap ==
    (counters # Pending
        /\ \E t \in {"push", "neutral", "boo"} : tallied[t] >= 2^(I16Bits - 1)) =>
        \A t \in {"push", "neutral", "boo"} :
            /\ counters[t] >= 0
            /\ counters[t] = tallied[t]

=============================================================================
